---- MODULE Spec2Model ----
(***************************************************************************)
(* A model of the ltsv_log service input plugin                            *)
(* (plugins/inputs/ltsv_log/ltsv_log.go): the line codec (processLine),    *)
(* the duplicate-point modifiers, the rotation-aware reader (read,         *)
(* readCurrentFile) and the Start/Stop/receiver lifecycle; and of the      *)
(* Start/Stop/receiver lifecycle of the tail-library variant (Tail).       *)
(*                                                                         *)
(* A log line is the sequence of its tab-separated terms.  A term is       *)
(* [k, colon, v]: the text before its first colon, whether it has a colon, *)
(* and the text after it.  A file is a sequence of tokens, each a term or  *)
(* NL (the line terminator); every token counts as one byte of file size.  *)
(***************************************************************************)
EXTENDS Integers, Sequences, FiniteSets, TLC

VARIABLES
  method,        \* r.DuplicatePointsWorkaroundMethod
  modifier,      \* r.dupPointModifier: its kind, prevTime and dupCount
  acc,           \* the points handed to r.acc.AddFields, in order
  inLine,        \* line codec: the line given to processLine
  lineStatus,    \* line codec: "pending", then processLine's outcome
  inTimes,       \* modifier: the timestamps given to Modify so far
  modOut,        \* modifier: the (timestamp, tags) Modify left, per call
  files,         \* file system: the content of every file created so far
  pathFile,      \* file system: the file now at r.Path (0: none)
  sizeAtCreate,  \* history: r.prevFileSize when that file was created
  handles,       \* every os.File the reader opened: [id, off, closed]
  file,          \* r.file: an index into handles (0: nil)
  prevFileSize,  \* r.prevFileSize
  done,          \* r.done: "nil", "open" or "closed"
  mu,            \* the reader's sync.Mutex: "free" or "held"
  rcv,           \* the receiver goroutine of each Start: "unborn", "loop"
                 \* (at its select), "read", "sleep", "clean" or "exited"
  nStarts,       \* the number of Start calls so far
  panicked,      \* a goroutine has panicked: the process is gone
  tDone,         \* Tail: t.done, "nil", "open" or "closed"
  tRcv,          \* Tail: its receiver goroutine: "unborn", "range" (at the
                 \* receive from t.tail.Lines), "select" or "exited"
  tailLines,     \* Tail: the lines the tail library holds ready on Lines
  tailDone,      \* Tail: t.tail.Done() has been called
  tWritten,      \* Tail: history, the lines written to the file so far
  tAcc,          \* Tail: the number of calls of t.acc.AddFields
  tPanicked      \* Tail: a goroutine has panicked

codecVars == <<inLine, lineStatus>>
dupVars == <<inTimes, modOut>>
fsVars == <<files, pathFile, sizeAtCreate>>
readerVars == <<handles, file, prevFileSize, done, mu, rcv, nStarts, panicked>>
tailVars == <<tDone, tRcv, tailLines, tailDone, tWritten, tAcc, tPanicked>>
ltsvVars == <<method, modifier, acc, codecVars, dupVars, fsVars, readerVars>>
vars == <<ltsvVars, tailVars>>

\* ------------------------------------------------------------------ bounds
MaxTerms == 2        \* terms per line in the line-codec specification
MaxPoints == 4       \* points fed to a modifier in the modifier specification
MaxTime == 2         \* instants 0..MaxTime are fed to a modifier
MaxFiles == 2        \* files ever created at the path
MaxWrites == 5       \* tokens ever written to the files; a restart counts for 2
MaxStarts == 2       \* calls of Start
MaxLiveWrites == 3   \* the same as MaxWrites, in the fair specification
MaxTailLines == 4    \* lines the tail library ever offers on its Lines channel

\* ----------------------------------------------------------- configuration
\* The reader's configuration, as the test and the sample configuration set
\* it: one label per field kind, a tag label, a label listed both as a
\* field and as a tag ("d"), and the time label listed as both too.
TimeLabel == "time"
StrFields == <<"s", "d", "time">>
IntFields == <<"i">>
FloatFields == <<"f">>
BoolFields == <<"b">>
LogTags == <<"h", "d", "time">>
UniqTagName == "uniq"

Labels == {"time", "s", "i", "f", "b", "h", "d", "z"}
Values == {"0", "1", "x"}
Methods == {"add_uniq_tag", "increment_time", "no_op", "none"}

Term == [k : Labels, colon : {TRUE}, v : Values]
          \cup [k : Labels, colon : {FALSE}, v : {""}]

RECURSIVE SeqsUpTo(_, _)
SeqsUpTo(S, n) ==
  IF n = 0 THEN {<<>>}
  ELSE LET shorter == SeqsUpTo(S, n - 1)
       IN shorter \cup {Append(s, x) : s \in {q \in shorter : Len(q) = n - 1}, x \in S}

Range(s) == {s[i] : i \in DOMAIN s}

EmptyMap == [x \in {} |-> ""]

\* F applied to the value of x, x computed once (a result held in a local
\* variable, as in `n2, err = r.readCurrentFile()`).
With(x, F(_)) == CHOOSE y \in {F(v) : v \in {x}} : TRUE
MapPut(m, k, v) == [x \in DOMAIN m \cup {k} |-> IF x = k THEN v ELSE m[x]]

\* ------------------------------------------------------------- conversions
\* time.Parse(r.TimeFormat, v): "0" is the text of the zero instant.
ParseTime(v) ==
  CASE v = "0" -> [ok |-> TRUE, t |-> 0]
    [] v = "1" -> [ok |-> TRUE, t |-> 1]
    [] OTHER -> [ok |-> FALSE, t |-> 0]

\* strconv.ParseInt(v, 10, 64)
ParseInt(v) ==
  CASE v = "0" -> [ok |-> TRUE, val |-> [kind |-> "int", i |-> 0]]
    [] v = "1" -> [ok |-> TRUE, val |-> [kind |-> "int", i |-> 1]]
    [] OTHER -> [ok |-> FALSE, val |-> [kind |-> "int", i |-> 0]]

\* strconv.ParseFloat(v, 64)
ParseFloat(v) ==
  CASE v = "0" -> [ok |-> TRUE, val |-> [kind |-> "float", f |-> 0]]
    [] v = "1" -> [ok |-> TRUE, val |-> [kind |-> "float", f |-> 1]]
    [] OTHER -> [ok |-> FALSE, val |-> [kind |-> "float", f |-> 0]]

\* strconv.ParseBool(v): "1" and "0" are among the accepted spellings.
ParseBool(v) ==
  CASE v = "0" -> [ok |-> TRUE, val |-> [kind |-> "bool", b |-> FALSE]]
    [] v = "1" -> [ok |-> TRUE, val |-> [kind |-> "bool", b |-> TRUE]]
    [] OTHER -> [ok |-> FALSE, val |-> [kind |-> "bool", b |-> FALSE]]

\* strconv.FormatInt(n, 10)
FormatInt(n) ==
  CASE n = 0 -> "0" [] n = 1 -> "1" [] n = 2 -> "2" [] n = 3 -> "3"
    [] n = 4 -> "4" [] n = 5 -> "5" [] n = 6 -> "6" [] OTHER -> "many"

\* ---------------------------------------------------- newFieldSet, newTagSet
\* The kinds are assigned in the order string, int, float, boolean: a label
\* listed under two kinds keeps the later one.
newFieldSet(strFields, intFields, floatFields, boolFields) ==
  [k \in Range(strFields) \cup Range(intFields)
           \cup Range(floatFields) \cup Range(boolFields) |->
     IF k \in Range(boolFields) THEN "boolean"
     ELSE IF k \in Range(floatFields) THEN "float"
     ELSE IF k \in Range(intFields) THEN "int"
     ELSE "string"]

newTagSet(names) == Range(names)

fieldSet == newFieldSet(StrFields, IntFields, FloatFields, BoolFields)
tagSet == newTagSet(LogTags)

\* ------------------------------------------------------ DupPointModifier
\* Start's switch on DuplicatePointsWorkaroundMethod: a fresh modifier, its
\* prevTime the zero time.Time and its dupCount 0.
NewModifier(name) ==
  CASE name = "add_uniq_tag" -> [kind |-> "add_uniq_tag", prevTime |-> 0, dupCount |-> 0]
    [] name = "increment_time" -> [kind |-> "increment_time", prevTime |-> 0, dupCount |-> 0]
    [] OTHER -> [kind |-> "no_op", prevTime |-> 0, dupCount |-> 0]

AddTagModify(m, t, tags) ==
  IF t = m.prevTime
  THEN [m |-> [m EXCEPT !.dupCount = m.dupCount + 1],
        t |-> t,
        tags |-> MapPut(tags, UniqTagName, FormatInt(m.dupCount + 1))]
  ELSE [m |-> [m EXCEPT !.dupCount = 0, !.prevTime = t], t |-> t, tags |-> tags]

IncTimeModifyOnlyBefore(m, t, tags) ==
  LET t2 == IF t < m.prevTime THEN m.prevTime + 1 ELSE t
  IN [m |-> [m EXCEPT !.prevTime = t2], t |-> t2, tags |-> tags]

IncTimeModify(m, t, tags) ==
  LET t2 == IF ~(t > m.prevTime) THEN m.prevTime + 1 ELSE t
  IN [m |-> [m EXCEPT !.prevTime = t2], t |-> t2, tags |-> tags]

NoOpModifyMutant(m, t, tags) == [m |-> m, t |-> t + 1, tags |-> tags]

NoOpModify(m, t, tags) == [m |-> m, t |-> t, tags |-> tags]

\* r.dupPointModifier.Modify(&t, tags): the interface dispatch.
Modify(m, t, tags) ==
  CASE m.kind = "add_uniq_tag" -> AddTagModify(m, t, tags)
    [] m.kind = "increment_time" -> IncTimeModify(m, t, tags)
    [] OTHER -> NoOpModify(m, t, tags)

\* ------------------------------------------------------------ processLine
\* strings.Split(line, "\t"): the empty line is one empty term.
SplitTerms(line) ==
  IF line = <<>> THEN << [k |-> "", colon |-> FALSE, v |-> ""] >> ELSE line

ConvertFieldUntyped(typ, v) == [ok |-> TRUE, val |-> [kind |-> "string", s |-> v]]

ConvertField(typ, v) ==
  CASE typ = "string" -> [ok |-> TRUE, val |-> [kind |-> "string", s |-> v]]
    [] typ = "int" -> ParseInt(v)
    [] typ = "float" -> ParseFloat(v)
    [] OTHER -> ParseBool(v)

RECURSIVE DecodeFrom(_, _, _, _, _)
DecodeFromTagFirst(terms, i, t, fields, tags) ==
  IF i > Len(terms) THEN [status |-> "ok", t |-> t, fields |-> fields, tags |-> tags]
  ELSE LET term == terms[i]
           k == term.k
           bad == [status |-> "err", t |-> t, fields |-> fields, tags |-> tags]
           panic == [status |-> "panic", t |-> t, fields |-> fields, tags |-> tags]
       IN IF k \in tagSet
          THEN IF ~term.colon THEN panic
               ELSE DecodeFrom(terms, i + 1, t, fields, MapPut(tags, k, term.v))
          ELSE IF k = TimeLabel
          THEN IF ~term.colon THEN panic
               ELSE IF ~ParseTime(term.v).ok THEN bad
               ELSE DecodeFrom(terms, i + 1, ParseTime(term.v).t, fields, tags)
          ELSE IF k \in DOMAIN fieldSet
          THEN IF ~term.colon THEN panic
               ELSE IF ~ConvertField(fieldSet[k], term.v).ok THEN bad
               ELSE DecodeFrom(terms, i + 1, t,
                               MapPut(fields, k, ConvertField(fieldSet[k], term.v).val), tags)
          ELSE DecodeFrom(terms, i + 1, t, fields, tags)

\* The loop over the terms, from term i on.  kv[1] of a term without a colon
\* does not exist: reading it is an index out of range, a run-time panic.
DecodeFrom(terms, i, t, fields, tags) ==
  IF i > Len(terms) THEN [status |-> "ok", t |-> t, fields |-> fields, tags |-> tags]
  ELSE LET term == terms[i]
           k == term.k
           bad == [status |-> "err", t |-> t, fields |-> fields, tags |-> tags]
           panic == [status |-> "panic", t |-> t, fields |-> fields, tags |-> tags]
       IN IF k = TimeLabel
          THEN IF ~term.colon THEN panic
               ELSE IF ~ParseTime(term.v).ok THEN bad
               ELSE DecodeFrom(terms, i + 1, ParseTime(term.v).t, fields, tags)
          ELSE IF k \in DOMAIN fieldSet
          THEN IF ~term.colon THEN panic
               ELSE IF ~ConvertField(fieldSet[k], term.v).ok THEN bad
               ELSE DecodeFrom(terms, i + 1, t,
                               MapPut(fields, k, ConvertField(fieldSet[k], term.v).val), tags)
          ELSE IF k \in tagSet
          THEN IF ~term.colon THEN panic
               ELSE DecodeFrom(terms, i + 1, t, fields, MapPut(tags, k, term.v))
          ELSE DecodeFrom(terms, i + 1, t, fields, tags)

DecodeFromInstantOne(line) == DecodeFrom(SplitTerms(line), 1, 1, EmptyMap, EmptyMap)

\* processLine up to its Modify: `var t time.Time` is the zero instant.
Decode(line) == DecodeFrom(SplitTerms(line), 1, 0, EmptyMap, EmptyMap)

\* The end of processLine, given what the loop decoded (d) and what Modify
\* makes of it (r): the point goes to the sink only if the loop ran through.
Emit(m, d, r) ==
  IF d.status = "ok"
  THEN [status |-> "ok", m |-> r.m,
        points |-> << [fields |-> d.fields, tags |-> r.tags, t |-> r.t] >>]
  ELSE [status |-> d.status, m |-> m, points |-> <<>>]

EmitPartial(m, d, r) ==
  IF d.status = "panic"
  THEN [status |-> d.status, m |-> m, points |-> <<>>]
  ELSE [status |-> d.status, m |-> r.m,
        points |-> << [fields |-> d.fields, tags |-> r.tags, t |-> r.t] >>]

ModifyAndEmit(m, d) == Emit(m, d, Modify(m, d.t, d.tags))

processLinePartial(m, line) == (LET d == Decode(line) IN EmitPartial(m, d, Modify(m, d.t, d.tags)))

EmitModified(m, d, r) ==
  IF d.status = "panic"
  THEN [status |-> d.status, m |-> m, points |-> <<>>]
  ELSE [status |-> d.status, m |-> r.m,
        points |-> IF d.status = "ok"
                   THEN << [fields |-> d.fields, tags |-> r.tags, t |-> r.t] >>
                   ELSE <<>>]

processLineModifiesAlways(m, line) == (LET d == Decode(line) IN EmitModified(m, d, Modify(m, d.t, d.tags)))

\* processLine(line) on modifier state m: the outcome, the modifier state
\* after it, and the points handed to r.acc.AddFields (none or one).
processLine(m, line) == ModifyAndEmit(m, Decode(line))

\* ------------------------------------------------------------ the reader
\* The reader as constructed (&ltsvLogReader{}), and no file at the path.
ReaderIdle ==
  /\ files = <<>>
  /\ pathFile = 0
  /\ sizeAtCreate = 0
  /\ handles = <<>>
  /\ file = 0
  /\ prevFileSize = 0
  /\ done = "nil"
  /\ mu = "free"
  /\ rcv = [i \in 1..MaxStarts |-> "unborn"]
  /\ nStarts = 0
  /\ panicked = FALSE

\* The Tail input as constructed (&Tail{}), and no line written to its file.
TailIdle ==
  /\ tDone = "nil"
  /\ tRcv = "unborn"
  /\ tailLines = 0
  /\ tailDone = FALSE
  /\ tWritten = 0
  /\ tAcc = 0
  /\ tPanicked = FALSE

\* The tokens a writer appends to the log: a term that decodes (a tag), a
\* term that fails to decode (a time value time.Parse rejects), and the line
\* terminator.
GoodTerm == [k |-> "h", colon |-> TRUE, v |-> "1"]
BadTerm == [k |-> "time", colon |-> TRUE, v |-> "x"]
NL == [k |-> "\n", colon |-> FALSE, v |-> ""]
WriteTokens == {GoodTerm, BadTerm, NL}

\* bufio.Scanner with bufio.ScanLines over data, all of which the scanner has
\* read into its buffer: the lines, each with the index in data where it
\* starts.  At the end of the data a last non-empty line is returned though
\* it has no terminator.
RECURSIVE ScanFrom(_, _, _, _)
ScanFrom(data, i, cur, start) ==
  IF i > Len(data)
  THEN IF cur = <<>> THEN <<>> ELSE << [text |-> cur, start |-> start] >>
  ELSE IF data[i] = NL
  THEN << [text |-> cur, start |-> start] >> \o ScanFrom(data, i + 1, <<>>, i + 1)
  ELSE ScanFrom(data, i + 1, Append(cur, data[i]), start)

ScanLines(data) == ScanFrom(data, 1, <<>>, 1)

\* The loop of readCurrentFile over the scanned lines, from line i on: n
\* grows by len(text), and the first line processLine fails on ends the loop.
\* A point is recorded with the file and the offset its line starts at.
WithSource(points, src) ==
  [j \in DOMAIN points |->
     [fields |-> points[j].fields, tags |-> points[j].tags, t |-> points[j].t, src |-> src]]

RECURSIVE ProcessLines(_, _, _, _, _, _, _)
RECURSIVE AfterLine(_, _, _, _, _, _, _, _)
ProcessLines(m, id, off, lines, i, pts, n) ==
  IF i > Len(lines) THEN [status |-> "ok", m |-> m, points |-> pts, n |-> n]
  ELSE With(processLine(m, lines[i].text),
            LAMBDA r : AfterLine(m, id, off, lines, i, pts, n + Len(lines[i].text), r))

\* r: what processLine made of line i.
AfterLine(m, id, off, lines, i, pts, n2, r) ==
  IF r.status = "ok"
  THEN ProcessLines(r.m, id, off, lines, i + 1,
                    pts \o WithSource(r.points, [id |-> id, at |-> off + lines[i].start - 1]),
                    n2)
  ELSE [status |-> r.status, m |-> m, points |-> pts, n |-> n2]

\* readCurrentFile on handle h, whose file holds content.  The scanner reads
\* from the handle's offset to the end of the file (the unread data fits its
\* buffer), which moves the offset there whatever becomes of the lines.  A
\* closed handle gives a read error and no line.
Scanned(r, end) ==
  [status |-> r.status, m |-> r.m, points |-> r.points, n |-> r.n, off |-> end]

readCurrentFile(m, h, content) ==
  IF h.closed
  THEN [status |-> "err", m |-> m, points |-> <<>>, n |-> 0, off |-> h.off]
  ELSE Scanned(ProcessLines(m, h.id, h.off,
                             ScanLines(SubSeq(content, h.off + 1, Len(content))),
                             1, <<>>, 0),
                Len(content))

\* os.Open(r.Path) in openLog: a new handle at offset 0 on the file at the path.
NewHandle == [id |-> pathFile, off |-> 0, closed |-> FALSE]

\* read() after a successful os.Stat, in four parts.  readNewFile: the path
\* was reopened (handles hs, the new one last) and r2 is what readCurrentFile
\* read from the new handle.
readNewFile(size, r1, hs, r2) ==
  [statOk |-> TRUE, size |-> size, rot |-> TRUE, openTried |-> TRUE,
   n |-> r1.n + r2.n, status |-> r2.status, m |-> r2.m,
   points |-> r1.points \o r2.points,
   handles |-> [hs EXCEPT ![Len(hs)].off = r2.off], file |-> Len(hs)]

\* reopenLog after the old handle was drained (r1): closeLog, then openLog.
reopenLog(size, r1, hs, openFails) ==
  IF openFails
  THEN [statOk |-> TRUE, size |-> size, rot |-> TRUE, openTried |-> TRUE,
        n |-> r1.n, status |-> "err", m |-> r1.m, points |-> r1.points,
        handles |-> hs, file |-> file]
  ELSE With(readCurrentFile(r1.m, NewHandle, files[pathFile]),
            LAMBDA r2 : readNewFile(size, r1, Append(hs, NewHandle), r2))

\* r1: what readCurrentFile read from the handle that was open.
readOpenFile(size, rot, r1, hs, openFails) ==
  IF ~rot
  THEN [statOk |-> TRUE, size |-> size, rot |-> FALSE, openTried |-> FALSE,
        n |-> r1.n, status |-> r1.status, m |-> r1.m, points |-> r1.points,
        handles |-> hs, file |-> file]
  ELSE IF r1.status # "ok"
  THEN [statOk |-> TRUE, size |-> size, rot |-> TRUE, openTried |-> FALSE,
        n |-> 0, status |-> r1.status, m |-> r1.m, points |-> r1.points,
        handles |-> hs, file |-> file]
  ELSE reopenLog(size, r1, [hs EXCEPT ![file].closed = TRUE], openFails)

readStatOk(m, size, r1, openFails) ==
  readOpenFile(size, size < prevFileSize /\ size > 0, r1,
               [handles EXCEPT ![file].off = r1.off], openFails)

\* read(), called with modifier state m.  openFails: os.Open in reopenLog
\* fails (the path has gone or cannot be opened since os.Stat saw it).
read(m, openFails) ==
  IF pathFile = 0
  THEN [statOk |-> FALSE, size |-> 0, rot |-> FALSE, openTried |-> FALSE,
        n |-> 0, status |-> "err", m |-> m, points |-> <<>>,
        handles |-> handles, file |-> file]
  ELSE With(readCurrentFile(m, handles[file], files[handles[file].id]),
            LAMBDA r1 : readStatOk(m, Len(files[pathFile]), r1, openFails))

\* ------------------------------------------------------ the run's bounds
RECURSIVE TotalLen(_, _)
TotalLen(fs, f) == IF f = 0 THEN 0 ELSE Len(fs[f]) + TotalLen(fs, f - 1)

Written == TotalLen(files, Len(files))

\* What a run has used of its bound: the w tokens written, and 2 for every
\* call of Start after the first.
Load(w, starts) == w + 2 * (IF starts > 1 THEN starts - 1 ELSE 0)

\* ------------------------------------------------ the reader's operations
StartSpawnsAnyway ==
  /\ ~panicked /\ mu = "free" /\ nStarts < MaxStarts
  /\ Load(Written, nStarts + 1) <= MaxWrites
  /\ nStarts' = nStarts + 1
  /\ done' = "open"
  /\ modifier' = NewModifier(method)
  /\ IF pathFile = 0
     THEN /\ rcv' = [rcv EXCEPT ![nStarts + 1] = "exited"]
          /\ UNCHANGED <<handles, file>>
     ELSE /\ handles' = Append(handles, NewHandle)
          /\ file' = Len(handles) + 1
          /\ rcv' = [rcv EXCEPT ![nStarts + 1] = "loop"]
  /\ UNCHANGED <<tailVars, method, acc, codecVars, dupVars, fsVars, prevFileSize, mu, panicked>>

\* Start(acc): under the lock, a new done channel and a new modifier; then
\* openLog, and the receiver goroutine only if that succeeded.
Start ==
  /\ ~panicked /\ mu = "free" /\ nStarts < MaxStarts
  /\ Load(Written, nStarts + 1) <= MaxWrites
  /\ nStarts' = nStarts + 1
  /\ done' = "open"
  /\ modifier' = NewModifier(method)
  /\ IF pathFile = 0
     THEN UNCHANGED <<handles, file, rcv>>
     ELSE /\ handles' = Append(handles, NewHandle)
          /\ file' = Len(handles) + 1
          /\ rcv' = [rcv EXCEPT ![nStarts + 1] = "loop"]
  /\ UNCHANGED <<tailVars, method, acc, codecVars, dupVars, fsVars, prevFileSize, mu, panicked>>

\* Stop(): close(r.done) under the lock.  Closing a nil or an already closed
\* channel panics, with the lock still held.
Stop ==
  /\ ~panicked /\ mu = "free"
  /\ IF done = "open"
     THEN done' = "closed" /\ UNCHANGED <<mu, panicked>>
     ELSE panicked' = TRUE /\ mu' = "held" /\ UNCHANGED done
  /\ UNCHANGED <<tailVars, method, modifier, acc, codecVars, dupVars, fsVars,
                 handles, file, prevFileSize, rcv, nStarts>>

AfterReadSizeOnSuccess(i, openFails, r) ==
  /\ openFails => r.openTried
  /\ handles' = r.handles
  /\ file' = r.file
  /\ modifier' = r.m
  /\ acc' = acc \o r.points
  /\ prevFileSize' = IF r.statOk /\ r.status = "ok" THEN r.size ELSE prevFileSize
  /\ panicked' = (r.status = "panic")
  /\ rcv' = [rcv EXCEPT ![i] = IF r.status # "panic" /\ r.n = 0 THEN "sleep" ELSE "loop"]

\* r: what read() did and returned.
AfterRead(i, openFails, r) ==
  /\ openFails => r.openTried
  /\ handles' = r.handles
  /\ file' = r.file
  /\ modifier' = r.m
  /\ acc' = acc \o r.points
  /\ prevFileSize' = IF r.statOk THEN r.size ELSE prevFileSize
  /\ panicked' = (r.status = "panic")
  /\ rcv' = [rcv EXCEPT ![i] = IF r.status # "panic" /\ r.n = 0 THEN "sleep" ELSE "loop"]

\* receiver(), its select: r.done is not closed, so the default branch is
\* taken.  The read() it calls runs without the lock, so Start, Stop and the
\* writer may act between the select and the read.
SelectDefault(i) ==
  /\ ~panicked /\ rcv[i] = "loop" /\ done # "closed"
  /\ rcv' = [rcv EXCEPT ![i] = "read"]
  /\ UNCHANGED <<tailVars, method, modifier, acc, codecVars, dupVars, fsVars,
                 handles, file, prevFileSize, done, mu, nStarts, panicked>>

\* receiver(), the default branch of its select: one read(), then the sleep
\* if read returned n = 0.
Read(i) ==
  /\ ~panicked /\ rcv[i] = "read"
  /\ \E openFails \in BOOLEAN :
       \E r \in {read(modifier, openFails)} : AfterRead(i, openFails, r)
  /\ UNCHANGED <<tailVars, method, codecVars, dupVars, fsVars, done, mu, nStarts>>

\* time.Sleep returns.
Wake(i) ==
  /\ ~panicked /\ rcv[i] = "sleep"
  /\ rcv' = [rcv EXCEPT ![i] = "loop"]
  /\ UNCHANGED <<tailVars, method, modifier, acc, codecVars, dupVars, fsVars,
                 handles, file, prevFileSize, done, mu, nStarts, panicked>>

SeeDoneIgnored(i) ==
  /\ ~panicked /\ rcv[i] = "loop" /\ done = "closed"
  /\ rcv' = [rcv EXCEPT ![i] = "sleep"]
  /\ UNCHANGED <<tailVars, method, modifier, acc, codecVars, dupVars, fsVars,
                 handles, file, prevFileSize, done, mu, nStarts, panicked>>

\* receiver(), the branch <-r.done of its select: return.
SeeDone(i) ==
  /\ ~panicked /\ rcv[i] = "loop" /\ done = "closed"
  /\ rcv' = [rcv EXCEPT ![i] = "clean"]
  /\ UNCHANGED <<tailVars, method, modifier, acc, codecVars, dupVars, fsVars,
                 handles, file, prevFileSize, done, mu, nStarts, panicked>>

\* The deferred clean(): closeLog under the lock, on whatever r.file is now.
Clean(i) ==
  /\ ~panicked /\ rcv[i] = "clean" /\ mu = "free"
  /\ handles' = IF file = 0 THEN handles ELSE [handles EXCEPT ![file].closed = TRUE]
  /\ rcv' = [rcv EXCEPT ![i] = "exited"]
  /\ UNCHANGED <<tailVars, method, modifier, acc, codecVars, dupVars, fsVars,
                 file, prevFileSize, done, mu, nStarts, panicked>>

\* ------------------------------------------------------- the file system
\* A new, empty file is created at the path.
Create ==
  /\ ~panicked /\ pathFile = 0 /\ Len(files) < MaxFiles
  /\ files' = Append(files, <<>>)
  /\ pathFile' = Len(files) + 1
  /\ sizeAtCreate' = prevFileSize
  /\ UNCHANGED <<tailVars, method, modifier, acc, codecVars, dupVars, readerVars>>

\* The file at the path is renamed away (a rotation begins); handles open on
\* it stay valid.
Rename ==
  /\ ~panicked /\ pathFile # 0 /\ Len(files) < MaxFiles
  /\ pathFile' = 0
  /\ UNCHANGED <<tailVars, method, modifier, acc, codecVars, dupVars, files, sizeAtCreate, readerVars>>

\* The writer appends one token to the file at the path.
Write(tok) ==
  /\ ~panicked /\ pathFile # 0 /\ Load(Written + 1, nStarts) <= MaxWrites
  /\ files' = [files EXCEPT ![pathFile] = Append(@, tok)]
  /\ UNCHANGED <<tailVars, method, modifier, acc, codecVars, dupVars, pathFile, sizeAtCreate, readerVars>>

ReaderMethods == {"no_op"}

Init ==
  /\ method \in ReaderMethods
  /\ modifier = [kind |-> "nil", prevTime |-> 0, dupCount |-> 0]
  /\ acc = <<>>
  /\ inLine = <<>>
  /\ lineStatus = "none"
  /\ inTimes = <<>>
  /\ modOut = <<>>
  /\ ReaderIdle
  /\ TailIdle

Next ==
  \/ Start
  \/ Stop
  \/ \E i \in 1..MaxStarts : SelectDefault(i)
  \/ \E i \in 1..MaxStarts : Read(i)
  \/ \E i \in 1..MaxStarts : Wake(i)
  \/ \E i \in 1..MaxStarts : SeeDone(i)
  \/ \E i \in 1..MaxStarts : Clean(i)
  \/ Create
  \/ Rename
  \/ \E tok \in WriteTokens : Write(tok)

Spec == Init /\ [][Next]_vars

\* The receiver goroutines are scheduled: a receiver that can take its next
\* step (its select, its read, the return of its sleep, the lock of clean)
\* eventually takes it.
ReceiverStep(i) == SelectDefault(i) \/ Read(i) \/ Wake(i) \/ SeeDone(i) \/ Clean(i)

ReceiverFair == \A i \in 1..MaxStarts : WF_vars(ReceiverStep(i))

\* The same operations within a smaller run: at most MaxLiveWrites tokens
\* written, a restart again counting for 2.
InLiveBounds == Load(Written, nStarts) <= MaxLiveWrites

FairNext ==
  \/ Start /\ InLiveBounds'
  \/ Stop
  \/ \E i \in 1..MaxStarts : SelectDefault(i)
  \/ \E i \in 1..MaxStarts : Read(i)
  \/ \E i \in 1..MaxStarts : Wake(i)
  \/ \E i \in 1..MaxStarts : SeeDone(i)
  \/ \E i \in 1..MaxStarts : Clean(i)
  \/ Create
  \/ Rename
  \/ \E tok \in WriteTokens : Write(tok) /\ InLiveBounds'

SpecFair == Init /\ [][FairNext]_vars /\ ReceiverFair

\* ----------------------------------------------- the line-codec specification
\* One line, of at most MaxTerms terms, is given to processLine of a reader
\* that Start has just configured.
Lines == SeqsUpTo(Term, MaxTerms)

LineInit ==
  /\ method \in Methods
  /\ modifier = NewModifier(method)
  /\ acc = <<>>
  /\ inLine \in Lines
  /\ lineStatus = "pending"
  /\ inTimes = <<>>
  /\ modOut = <<>>
  /\ ReaderIdle
  /\ TailIdle

LineStep ==
  /\ lineStatus = "pending"
  /\ LET r == processLine(modifier, inLine)
     IN /\ lineStatus' = r.status
        /\ modifier' = r.m
        /\ acc' = acc \o r.points
  /\ UNCHANGED <<tailVars, method, inLine, dupVars, fsVars, readerVars>>

LineNext == LineStep

SpecLine == LineInit /\ [][LineNext]_vars

\* ------------------------------------------------- the modifier specification
\* A freshly created modifier is given up to MaxPoints timestamps, each with
\* an empty tag mapping.
DupInit ==
  /\ method \in Methods
  /\ modifier = NewModifier(method)
  /\ acc = <<>>
  /\ inLine = <<>>
  /\ lineStatus = "none"
  /\ inTimes = <<>>
  /\ modOut = <<>>
  /\ ReaderIdle
  /\ TailIdle

ModifyStep ==
  /\ Len(inTimes) < MaxPoints
  /\ \E t \in 0..MaxTime :
       LET r == Modify(modifier, t, EmptyMap)
       IN /\ inTimes' = Append(inTimes, t)
          /\ modOut' = Append(modOut, [t |-> r.t, tags |-> r.tags])
          /\ modifier' = r.m
  /\ UNCHANGED <<tailVars, method, acc, codecVars, fsVars, readerVars>>

DupNext == ModifyStep

SpecDup == DupInit /\ [][DupNext]_vars

\* ------------------------------------------------- the feed specification
\* A reader that Start has just configured is given lines one after the
\* other, as successive scans give them to processLine, until MaxPoints
\* points have been emitted: lines that decode (with equal, later and
\* missing timestamps) and lines that fail after their time term parsed.
FeedLines ==
  { << [k |-> "time", colon |-> TRUE, v |-> "1"], [k |-> "h", colon |-> TRUE, v |-> "1"] >>,
    << [k |-> "time", colon |-> TRUE, v |-> "0"] >>,
    << [k |-> "h", colon |-> TRUE, v |-> "x"] >>,
    << [k |-> "time", colon |-> TRUE, v |-> "1"], [k |-> "i", colon |-> TRUE, v |-> "x"] >>,
    << [k |-> "time", colon |-> TRUE, v |-> "x"] >> }

FeedInit ==
  /\ method \in Methods
  /\ modifier = NewModifier(method)
  /\ acc = <<>>
  /\ inLine = <<>>
  /\ lineStatus = "none"
  /\ inTimes = <<>>
  /\ modOut = <<>>
  /\ ReaderIdle
  /\ TailIdle

FeedStep ==
  /\ Len(acc) < MaxPoints
  /\ \E line \in FeedLines :
       \E r \in {processLine(modifier, line)} :
         /\ inLine' = line
         /\ lineStatus' = r.status
         /\ modifier' = r.m
         /\ acc' = acc \o r.points
  /\ UNCHANGED <<tailVars, method, dupVars, fsVars, readerVars>>

FeedNext == FeedStep

SpecFeed == FeedInit /\ [][FeedNext]_vars

\* --------------------------------------------- the tail-library variant
\* Tail follows the file through the tail library: t.tail.Lines is the
\* library's unbuffered channel of lines, and tailLines counts the lines the
\* library holds ready to send on it.  One instance is followed from its
\* construction through one call of Start and any calls of Stop.

\* Start(acc): t.done is made; tailfile.TailFile may fail, and then Start
\* returns the error with no receiver; otherwise go t.receiver().
TailStart ==
  /\ ~tPanicked /\ tDone = "nil"
  /\ tDone' = "open"
  /\ \E tailFileFails \in BOOLEAN :
       tRcv' = IF tailFileFails THEN tRcv ELSE "range"
  /\ UNCHANGED <<ltsvVars, tailLines, tailDone, tWritten, tAcc, tPanicked>>

\* Stop(): close(t.done) under the lock; closing a nil or an already closed
\* channel panics.
TailStop ==
  /\ ~tPanicked
  /\ IF tDone = "open"
     THEN tDone' = "closed" /\ UNCHANGED tPanicked
     ELSE tPanicked' = TRUE /\ UNCHANGED tDone
  /\ UNCHANGED <<ltsvVars, tRcv, tailLines, tailDone, tWritten, tAcc>>

\* The tail library finds a further line in the file and holds it ready on
\* Lines; it does so from TailFile until Done.
TailLine ==
  /\ ~tPanicked /\ tRcv # "unborn" /\ ~tailDone
  /\ tWritten < MaxTailLines
  /\ tWritten' = tWritten + 1
  /\ tailLines' = tailLines + 1
  /\ UNCHANGED <<ltsvVars, tDone, tRcv, tailDone, tAcc, tPanicked>>

\* What the body of the range loop does with a received line: a line with
\* line.Err is logged; a parsed line is given to AddFields; after a parse
\* error the code still calls metric.Name(), which gives AddFields a metric
\* or panics on the nil one.
LineOutcomes == {"lineErr", "point", "nilMetric"}

\* receiver(), `for line := range t.tail.Lines` and the body up to the
\* select: it blocks until the library sends a line, and handles it.
TailReceive(outcome) ==
  /\ ~tPanicked /\ tRcv = "range" /\ tailLines > 0
  /\ tailLines' = tailLines - 1
  /\ tAcc' = IF outcome = "point" THEN tAcc + 1 ELSE tAcc
  /\ tPanicked' = (outcome = "nilMetric")
  /\ tRcv' = IF outcome = "nilMetric" THEN tRcv ELSE "select"
  /\ UNCHANGED <<ltsvVars, tDone, tailDone, tWritten>>

\* receiver(), the select after a line, case <-t.done: t.tail.Done() and
\* return.
TailSeeDone ==
  /\ ~tPanicked /\ tRcv = "select" /\ tDone = "closed"
  /\ tailDone' = TRUE
  /\ tRcv' = "exited"
  /\ UNCHANGED <<ltsvVars, tDone, tailLines, tWritten, tAcc, tPanicked>>

\* receiver(), the select after a line, default: back to the range loop.
TailSelectDefault ==
  /\ ~tPanicked /\ tRcv = "select" /\ tDone # "closed"
  /\ tRcv' = "range"
  /\ UNCHANGED <<ltsvVars, tDone, tailLines, tailDone, tWritten, tAcc, tPanicked>>

TailNext ==
  \/ TailStart
  \/ TailStop
  \/ TailLine
  \/ \E outcome \in LineOutcomes : TailReceive(outcome)
  \/ TailSeeDone
  \/ TailSelectDefault

\* The receiver goroutine is scheduled: when it can receive a line or run
\* its select, it eventually does.  Nothing obliges the file to grow.
TailReceiverStep ==
  \/ \E outcome \in LineOutcomes : TailReceive(outcome)
  \/ TailSeeDone
  \/ TailSelectDefault

TailFair == WF_vars(TailReceiverStep)

SpecTail == Init /\ [][TailNext]_vars /\ TailFair

\* ------------------------------------------------------- line-codec claims
\* What the line says, read off its terms without running the decoder.
IsTimeTerm(term) == term.k = TimeLabel
IsFieldTerm(term) == term.k # TimeLabel /\ term.k \in DOMAIN fieldSet
IsTagTerm(term) ==
  term.k # TimeLabel /\ term.k \notin DOMAIN fieldSet /\ term.k \in tagSet

FailingTerm(term) ==
  /\ term.colon
  /\ \/ IsTimeTerm(term) /\ ~ParseTime(term.v).ok
     \/ IsFieldTerm(term) /\ ~ConvertField(fieldSet[term.k], term.v).ok

HasFailingTerm(line) == \E i \in DOMAIN line : FailingTerm(line[i])

LastIndex(line, P(_)) ==
  CHOOSE i \in DOMAIN line : P(line[i]) /\ \A j \in DOMAIN line : P(line[j]) => j <= i

HasTimeTerm(line) == \E i \in DOMAIN line : IsTimeTerm(line[i])
LineTime(line) == ParseTime(line[LastIndex(line, IsTimeTerm)].v).t

LineTags(line) ==
  [k \in {line[i].k : i \in {j \in DOMAIN line : IsTagTerm(line[j])}} |->
     LET HasLabel(term) == term.k = k IN line[LastIndex(line, HasLabel)].v]

\* C5: a line with a time-label value that fails to parse, or a field value
\* that fails conversion to its declared kind, makes no call to the sink at
\* all, whichever term fails and however many terms before it decoded.
C5_FailingLineEmitsNothing ==
  (lineStatus # "pending" /\ HasFailingTerm(inLine)) => acc = <<>>

C5_Witness ==
  /\ lineStatus = "err"
  /\ Len(inLine) = 2
  /\ IsTagTerm(inLine[1]) /\ inLine[1].colon
  /\ IsFieldTerm(inLine[2]) /\ FailingTerm(inLine[2])
  /\ acc = <<>>

\* C6: processLine never crashes on a term without a colon, whatever its
\* label: no line drives it into a panic.
C6_NoColonNeverPanics == lineStatus # "panic"

\* C9: under the no_op strategy (every method name other than add_uniq_tag
\* and increment_time) a line with a parseable time-label term is emitted
\* with the parsed timestamp and exactly the tags decoded from the line.
C9_NoOpKeepsTimeAndTags ==
  (/\ method \notin {"add_uniq_tag", "increment_time"}
   /\ lineStatus = "ok"
   /\ HasTimeTerm(inLine))
  => /\ Len(acc) = 1
     /\ acc[1].t = LineTime(inLine)
     /\ acc[1].tags = LineTags(inLine)
     /\ modifier = NewModifier(method)

C9_Witness ==
  /\ method = "none"
  /\ lineStatus = "ok"
  /\ Len(inLine) = 2
  /\ IsTimeTerm(inLine[1]) /\ inLine[1].v = "1"
  /\ IsTagTerm(inLine[2]) /\ inLine[2].v = "x"
  /\ Len(acc) = 1 /\ acc[1].t = 1 /\ DOMAIN acc[1].tags = {inLine[2].k}

\* --------------------------------------------------------- modifier claims
\* The place of the i-th timestamp in its maximal run of equal timestamps.
RECURSIVE RunIndex(_, _)
RunIndex(s, i) == IF i > 1 /\ s[i - 1] = s[i] THEN RunIndex(s, i - 1) + 1 ELSE 1

\* C7: add_uniq_tag on a fresh modifier, for every sequence of timestamps
\* (the zero instant first included): the 1st point of each maximal run of
\* equal timestamps gets no uniq tag, the n-th gets the tag FormatInt(n-1).
C7_UniqTagByRun ==
  method = "add_uniq_tag" =>
    \A i \in DOMAIN inTimes :
      modOut[i].tags = IF RunIndex(inTimes, i) = 1 THEN EmptyMap
                       ELSE MapPut(EmptyMap, UniqTagName, FormatInt(RunIndex(inTimes, i) - 1))

\* C8: increment_time on a fresh modifier, for every timestamp t: the
\* inputs [t, t, t] give the outputs [t, t+1ns, t+2ns].
C8_IncTimeThreeEqual ==
  (/\ method = "increment_time"
   /\ Len(inTimes) = 3
   /\ inTimes[1] = inTimes[2] /\ inTimes[2] = inTimes[3])
  => /\ modOut[1].t = inTimes[1]
     /\ modOut[2].t = inTimes[1] + 1
     /\ modOut[3].t = inTimes[1] + 2

\* ----------------------------------------------------------- reader claims
\* The lines of a file, each with the offset it starts at and the offset
\* of its terminator (the file's length for a last, unterminated line).
FileLines(f) ==
  LET ls == ScanLines(files[f])
  IN [j \in DOMAIN ls |->
        [text |-> ls[j].text, at |-> ls[j].start - 1,
         end |-> ls[j].start - 1 + Len(ls[j].text)]]

Complete(f, line) == line.end < Len(files[f])
WellFormed(line) == line.text # <<>> /\ Decode(line.text).status = "ok"

\* The points emitted so far for a line: those read at an offset inside it.
PointsOf(f, line, points) ==
  {j \in DOMAIN points :
     points[j].src.id = f /\ line.at <= points[j].src.at /\ points[j].src.at <= line.end}

RotationInferred ==
  /\ pathFile # 0
  /\ Len(files[pathFile]) < prevFileSize
  /\ Len(files[pathFile]) > 0

\* The unread lines of the open handle: those that end beyond its offset.
Unread(h, line) == line.end >= handles[h].off /\ line.at >= handles[h].off

\* The file behind the open handle holds whole lines only, and the handle
\* stands at a line boundary.
OldFileWhole ==
  LET old == files[handles[file].id]
  IN /\ old # <<>> /\ old[Len(old)] = NL
     /\ (handles[file].off = 0 \/ old[handles[file].off] = NL)

\* C1: a read() that infers a rotation (in a first run, the old file made of
\* whole lines) first processes every line still unread in the open (old)
\* handle, then closes that handle and reopens the path, and only then
\* processes lines of the new file: no point of the new file is emitted
\* before the last remaining line of the old one.
C1_RotationDrainsThenReopens ==
  [][\A i \in 1..MaxStarts :
       (/\ Read(i) /\ nStarts = 1
        /\ RotationInferred /\ ~handles[file].closed /\ OldFileWhole) =>
         /\ \A j \in DOMAIN FileLines(handles[file].id) :
              LET line == FileLines(handles[file].id)[j]
              IN (Unread(file, line) /\ WellFormed(line)) =>
                   \E p \in (Len(acc) + 1)..Len(acc') :
                     acc'[p].src = [id |-> handles[file].id, at |-> line.at]
         /\ handles'[file].closed
         /\ file' # file => /\ handles'[file'].id = pathFile
                            /\ ~handles'[file'].closed
         /\ \A p, q \in (Len(acc) + 1)..Len(acc') :
              (acc'[p].src.id = pathFile /\ acc'[q].src.id = handles[file].id
               /\ pathFile # handles[file].id) => q < p
    ]_vars

\* C2: one run, one rotation from file 1 to file 2, file 2 at every poll
\* shorter than the size last recorded for file 1 (a poll that sees it empty
\* included), every line well-formed and read whole, no open failing: once
\* read() has run,
\* the points emitted are the lines of file 1 in order, then the lines of
\* file 2 in order, each once.
LineSources(f) == [j \in DOMAIN FileLines(f) |-> [id |-> f, at |-> FileLines(f)[j].at]]

AllWellFormed(f) ==
  /\ files[f] # <<>>
  /\ files[f][Len(files[f])] = NL
  /\ \A j \in DOMAIN FileLines(f) : WellFormed(FileLines(f)[j])

ReadWhole(points) ==
  \A p \in DOMAIN points :
    \E j \in DOMAIN FileLines(points[p].src.id) :
      FileLines(points[p].src.id)[j].at = points[p].src.at

C2_RotationLosesNothing ==
  [][\A i \in 1..MaxStarts :
       (/\ Read(i)
        /\ nStarts = 1 /\ done = "open"
        /\ Len(files) = 2 /\ pathFile = 2
        /\ AllWellFormed(1) /\ AllWellFormed(2)
        /\ Len(files[2]) < sizeAtCreate
        /\ ~handles[file].closed /\ ~handles'[file'].closed
        /\ ReadWhole(acc'))
       => [p \in DOMAIN acc' |-> acc'[p].src] = LineSources(1) \o LineSources(2)
    ]_vars

\* C3: readCurrentFile never consumes a partial line: the read offset of a
\* handle is never past bytes that no line terminator follows yet, so it is
\* 0 or just behind a terminator.
C3_OffsetAtLineBoundary ==
  \A h \in DOMAIN handles :
    handles[h].off = 0 \/ files[handles[h].id][handles[h].off] = NL

\* C4: a line processLine fails on is the only line skipped: within one run,
\* every well-formed complete line the reader has read past, the lines
\* that came in the same batch behind a failing line included, has been
\* emitted, and no line is emitted twice.
C4_OnlyFailingLineSkipped ==
  nStarts <= 1 =>
    /\ \A h \in DOMAIN handles :
         \A j \in DOMAIN FileLines(handles[h].id) :
           LET line == FileLines(handles[h].id)[j]
           IN (Complete(handles[h].id, line) /\ line.end < handles[h].off /\ WellFormed(line))
                => PointsOf(handles[h].id, line, acc) # {}
    /\ \A p, q \in DOMAIN acc : acc[p].src = acc[q].src => p = q

\* C10: Stop is safe to call whenever the receiver has exited or never ran (a
\* second Stop, Stop after a failed Start, Stop without Start): it neither
\* panics nor leaves the lock held.
C10_StopNeverPanics == ~(panicked /\ mu = "held")

\* C11: Stop blocks until the reader's state is safe to discard: when a Stop
\* that closed r.done returns, every receiver has terminated and the open
\* file handle is closed, and once r.done is closed no point goes to the sink.
C11_StopWaitsForReceiver ==
  [][/\ (Stop /\ done = "open") =>
          /\ \A i \in 1..MaxStarts : rcv'[i] \in {"unborn", "exited"}
          /\ file # 0 => handles'[file].closed
     /\ done = "closed" => acc' = acc
    ]_vars

\* C12: a Start whose open of the path fails spawns no receiver and opens no
\* handle, the receiver of that Start never comes to life, and while no
\* Start has succeeded no point is emitted.
C12_FailedStartSpawnsNothing ==
  [][/\ (Start /\ pathFile = 0) =>
          /\ rcv' = rcv /\ handles' = handles /\ file' = file /\ acc' = acc
     /\ \A i \in 1..nStarts : rcv[i] = "unborn" => rcv'[i] = "unborn"
     /\ (\A i \in 1..MaxStarts : rcv[i] = "unborn") => acc' = <<>>
    ]_vars

\* A Start has failed, and the path has since got a file with a whole line.
C12_Witness ==
  /\ nStarts = 1 /\ rcv[1] = "unborn" /\ done = "open"
  /\ pathFile # 0 /\ files[pathFile] = <<GoodTerm, NL>>
  /\ acc = <<>>

\* C13: after Stop has closed r.done on a running reader, and with no further
\* Start, the receiver eventually terminates with the file handle closed
\* by clean(); a read in flight still runs to its end, and a receiver that
\* has seen the signal starts no new read.
C13_ReceiverExitsAfterStop ==
  /\ \A i \in 1..MaxStarts :
       (done = "closed" /\ rcv[i] \in {"loop", "read", "sleep"})
         ~> \/ rcv[i] = "exited" /\ handles[file].closed
            \/ done # "closed"
            \/ panicked
  /\ [][\A i \in 1..MaxStarts :
         /\ rcv[i] \in {"clean", "exited"} => rcv'[i] \in {"clean", "exited"}
         /\ (rcv[i] = "read" /\ done = "closed" /\ rcv'[i] # rcv[i])
              => rcv'[i] \in {"loop", "sleep"}
      ]_vars

\* A reader that has emitted a point was stopped; its receiver has since
\* exited and the handle is closed.
C13_Witness ==
  /\ nStarts = 1 /\ done = "closed" /\ ~panicked
  /\ rcv[1] = "exited" /\ handles[file].closed
  /\ acc # <<>>

\* C14: a failure inside read() never ends the receiver loop, and the failed
\* step is retried: in a first run, when a reopen has failed (r.file is the
\* closed old handle) and a file is at the path again, the next read() opens
\* the path, so that the reader holds an open handle after it.
C14_FailedReopenIsRetried ==
  [][\A i \in 1..MaxStarts :
       /\ Read(i) => rcv'[i] \in {"loop", "sleep"}
       /\ (Read(i) /\ nStarts = 1 /\ handles[file].closed /\ pathFile # 0)
            => ~handles'[file'].closed
    ]_vars

\* The kind of value each declared field type stands for.
KindOf(typ) ==
  CASE typ = "string" -> "string" [] typ = "int" -> "int"
    [] typ = "float" -> "float" [] OTHER -> "bool"

\* The value the line gives label k: that of its last term with the label.
LineValue(line, k) ==
  LET HasLabel(term) == term.k = k IN line[LastIndex(line, HasLabel)].v

LineFieldLabels(line) == {line[i].k : i \in {j \in DOMAIN line : IsFieldTerm(line[j])}}

\* C15: for every line decoded without error the fields of the point are
\* exactly the line's labels that are fields (and not the time label), each
\* with a value of its declared kind made from the line's text; the tags the
\* decoder hands to the resolver are exactly the line's labels that are tags
\* and neither the time label nor a field, each with the literal text; the
\* point keeps them when the resolver is the no-op.
C15_FieldsAndTagsOfLine ==
  lineStatus = "ok" =>
    /\ Len(acc) = 1
    /\ DOMAIN acc[1].fields = LineFieldLabels(inLine)
    /\ \A k \in DOMAIN acc[1].fields :
         /\ acc[1].fields[k].kind = KindOf(fieldSet[k])
         /\ acc[1].fields[k] =
              (CASE fieldSet[k] = "string" -> [kind |-> "string", s |-> LineValue(inLine, k)]
                 [] fieldSet[k] = "int" -> ParseInt(LineValue(inLine, k)).val
                 [] fieldSet[k] = "float" -> ParseFloat(LineValue(inLine, k)).val
                 [] OTHER -> ParseBool(LineValue(inLine, k)).val)
    /\ Decode(inLine).tags = LineTags(inLine)
    /\ modifier.kind = "no_op" => acc[1].tags = LineTags(inLine)

\* An int field and a tag in one line.
C15_Witness ==
  /\ lineStatus = "ok" /\ method = "no_op"
  /\ inLine = << [k |-> "i", colon |-> TRUE, v |-> "1"], [k |-> "h", colon |-> TRUE, v |-> "x"] >>
  /\ acc = << [fields |-> MapPut(EmptyMap, "i", [kind |-> "int", i |-> 1]),
               tags |-> MapPut(EmptyMap, "h", "x"), t |-> 0] >>

\* A term with the time label and the text of the zero instant.
ZeroTimeTerm == [k |-> TimeLabel, colon |-> TRUE, v |-> "0"]

\* C16: a line without a time-label term is no error by that: it fails only
\* on a failing field term (or panics on a term without a colon); when it
\* decodes, one point is emitted, the instant handed to the resolver is the
\* zero instant, and the point is the one the same line with an explicit
\* zero timestamp in front gives.
C16_NoTimeTermIsZeroInstant ==
  (lineStatus # "pending" /\ ~HasTimeTerm(inLine)) =>
    /\ lineStatus = "err" => HasFailingTerm(inLine)
    /\ lineStatus = "panic" => \E i \in DOMAIN inLine : ~inLine[i].colon
    /\ lineStatus = "ok" =>
         /\ Len(acc) = 1
         /\ Decode(inLine).t = ParseTime(ZeroTimeTerm.v).t
         /\ acc = processLine(NewModifier(method), <<ZeroTimeTerm>> \o inLine).points

\* A line of two tags and no time term, and its point at the zero instant.
C16_Witness ==
  /\ lineStatus = "ok" /\ method = "no_op"
  /\ Len(inLine) = 2 /\ IsTagTerm(inLine[1]) /\ IsTagTerm(inLine[2])
  /\ Len(acc) = 1 /\ acc[1].t = 0 /\ acc[1].tags = LineTags(inLine)

\* C17: the classification of a term is time label, then field, then tag: a
\* term with the time label is only parsed as the timestamp (is no field and
\* no tag, and fails the line if its value does not parse, though the label
\* is also listed as a string field and as a tag); a label listed as a field
\* and as a tag is stored as a field and is never among the tags.
C17_TimeThenFieldThenTag ==
  /\ (\E i \in DOMAIN inLine :
        IsTimeTerm(inLine[i]) /\ inLine[i].colon /\ ~ParseTime(inLine[i].v).ok)
       => lineStatus # "ok"
  /\ lineStatus = "ok" =>
       /\ HasTimeTerm(inLine) => Decode(inLine).t = LineTime(inLine)
       /\ TimeLabel \notin DOMAIN acc[1].fields \cup DOMAIN acc[1].tags
       /\ \A k \in (DOMAIN fieldSet \cap tagSet) \ {TimeLabel} :
            /\ k \notin DOMAIN acc[1].tags
            /\ (\E i \in DOMAIN inLine : inLine[i].k = k) => k \in DOMAIN acc[1].fields

\* A time term and a term whose label is both a field and a tag.
C17_Witness ==
  /\ lineStatus = "ok" /\ method = "no_op"
  /\ inLine = << [k |-> "time", colon |-> TRUE, v |-> "1"], [k |-> "d", colon |-> TRUE, v |-> "x"] >>
  /\ acc = << [fields |-> MapPut(EmptyMap, "d", [kind |-> "string", s |-> "x"]),
               tags |-> EmptyMap, t |-> 1] >>

\* The timestamp emitted before the i-th: for the first, the previous
\* timestamp a fresh modifier stores.
PrevEmitted(i) == IF i = 1 THEN NewModifier(method).prevTime ELSE modOut[i - 1].t

\* C18: increment_time, for every sequence of timestamps, sorted or not: the
\* emitted timestamps are strictly increasing; a timestamp strictly after
\* the previous (stored) one passes unchanged, any other becomes the
\* previous one + 1ns; the stored previous timestamp is the last emitted.
C18_IncTimeStrictlyIncreasing ==
  method = "increment_time" =>
    /\ \A i \in DOMAIN modOut :
         /\ modOut[i].t > PrevEmitted(i)
         /\ modOut[i].t = IF inTimes[i] > PrevEmitted(i) THEN inTimes[i]
                           ELSE PrevEmitted(i) + 1
    /\ modifier.prevTime = PrevEmitted(Len(modOut) + 1)

\* An unsorted sequence: a timestamp, then two earlier, equal ones.
C18_Witness ==
  /\ method = "increment_time"
  /\ inTimes = <<2, 1, 1>>
  /\ modOut = << [t |-> 2, tags |-> EmptyMap], [t |-> 3, tags |-> EmptyMap],
                 [t |-> 4, tags |-> EmptyMap] >>

\* C19: a read() whose os.Stat succeeds leaves prevFileSize at the size that
\* stat saw, on every way out (no rotation, rotation handled, the drain of
\* the old handle failed, the reopen failed, a read error); a read() whose
\* os.Stat fails leaves prevFileSize as it was.
C19_PrevFileSizeIsStatSize ==
  [][\A i \in 1..MaxStarts :
       Read(i) => prevFileSize' = IF pathFile # 0 THEN Len(files[pathFile])
                                  ELSE prevFileSize
    ]_vars

\* A reopen has failed in a rotation to a shorter file: the handle is closed,
\* the receiver runs on, and prevFileSize is the new file's size.
C19_Witness ==
  /\ nStarts = 1 /\ done = "open" /\ rcv[1] \in {"loop", "sleep"}
  /\ file = 1 /\ handles[1].closed
  /\ pathFile = 2 /\ Len(files[2]) > 0
  /\ prevFileSize = Len(files[2]) /\ prevFileSize < sizeAtCreate

\* The read() closed the handle it had and opened the path anew.
Reopened ==
  /\ file' # file
  /\ handles'[file].closed
  /\ handles'[file'] = [id |-> pathFile, off |-> handles'[file'].off, closed |-> FALSE]

\* The read() left the handle it had in place and open.
Untouched == file' = file /\ ~handles'[file].closed

\* C20: read() closes and reopens the file handle if and only if the size
\* of the path is less than prevFileSize and greater than 0; otherwise it
\* leaves the handle untouched.  (In a first run, the old file made of whole
\* lines, no open failing.)
C20_ReopenIffRotation ==
  [][\A i \in 1..MaxStarts :
       (/\ Read(i) /\ nStarts = 1 /\ pathFile # 0
        /\ ~handles[file].closed /\ OldFileWhole
        /\ ~handles'[file'].closed)
       => /\ Reopened <=> RotationInferred
          /\ ~RotationInferred => Untouched
    ]_vars

\* The read() passed at least one line to processLine: some handle's offset
\* moved (the scanner found data, so at least one line), the offset of a
\* handle opened by this read() included.
ConsumedLine ==
  \E h \in DOMAIN handles' :
    handles'[h].off > (IF h \in DOMAIN handles THEN handles[h].off ELSE 0)

\* C21: the receiver sleeps after a read step if and only if the step
\* consumed no line; a step that consumed a line, be it of zero length or in
\* a batch that ended in an error, polls again without sleeping.
C21_SleepIffNoLine ==
  [][\A i \in 1..MaxStarts :
       (Read(i) /\ ~panicked') => (rcv'[i] = "sleep" <=> ~ConsumedLine)
    ]_vars

\* The receiver goroutines that have been spawned and have not returned.
Alive == {i \in 1..MaxStarts : rcv[i] \in {"loop", "read", "sleep", "clean"}}

\* C22: for every interleaving of Start and Stop on one reader (Start right
\* after Stop, Start twice), at most one receiver is alive at any time.
C22_AtMostOneReceiver == Cardinality(Alive) <= 1

\* C23: a Start begins a run with fresh state, the previously observed size
\* included: in a run started after the earlier receivers have exited, the
\* first read() of the handle Start opened, with the file it was opened on
\* still at the path and no longer than the size recorded before, infers no
\* rotation (it keeps that handle) and emits each line once.
C23_RestartStartsFresh ==
  [][\A i \in 2..MaxStarts :
       (/\ Read(i) /\ i = nStarts
        /\ \A j \in 1..(i - 1) : rcv[j] \in {"unborn", "exited"}
        /\ file = Len(handles) /\ handles[file].off = 0 /\ ~handles[file].closed
        /\ handles[file].id = pathFile /\ Len(files[pathFile]) <= prevFileSize)
       => /\ file' = file /\ ~handles'[file].closed
          /\ \A p, q \in (Len(acc) + 1)..Len(acc') :
               acc'[p].src = acc'[q].src => p = q
    ]_vars

\* C24: for every line given to processLine, Modify runs exactly once if the
\* line decodes, on the decoded timestamp and tags, and the sink gets the
\* timestamp and tags Modify left, as the last point; if the line fails to
\* decode Modify does not run (the modifier's prevTime and dupCount are
\* unchanged) and the sink gets nothing.
C24_ModifyOncePerDecodedLine ==
  [][FeedStep =>
       LET d == Decode(inLine')
           r == Modify(modifier, d.t, d.tags)
       IN /\ lineStatus' = d.status
          /\ IF d.status = "ok"
             THEN /\ modifier' = r.m
                  /\ acc' = Append(acc, [fields |-> d.fields, tags |-> r.tags, t |-> r.t])
             ELSE /\ modifier' = modifier
                  /\ acc' = acc
    ]_vars

\* add_uniq_tag: two lines with the same timestamp were emitted, the second
\* with the uniq tag; a third line with that timestamp failed on a field
\* and left the duplicate counter as it was.
C24_Witness ==
  /\ method = "add_uniq_tag"
  /\ lineStatus = "err" /\ Len(inLine) = 2 /\ inLine[1].v = "1"
  /\ Len(acc) = 2 /\ acc[1].t = 1 /\ acc[2].t = 1
  /\ UniqTagName \notin DOMAIN acc[1].tags
  /\ acc[2].tags[UniqTagName] = "1"
  /\ modifier.prevTime = 1 /\ modifier.dupCount = 1

\* C25: the life of a file handle, in one run, for every sequence of polls,
\* rotations, open failures and Stop: no read() is attempted on a handle
\* that is already closed, and clean() closes a handle that is still open
\* (no handle is closed twice).
C25_HandleClosedOnce ==
  [][\A i \in 1..MaxStarts :
       /\ (Read(i) /\ nStarts = 1 /\ pathFile # 0) => ~handles[file].closed
       /\ (Clean(i) /\ nStarts = 1) => ~handles[file].closed
    ]_vars

\* ------------------------------------------------------------ Tail claims
TailReceiverAlive == tRcv \in {"range", "select"}

\* C26: after Stop on a started Tail, the receiver eventually calls
\* tail.Done() and returns, also when no further line arrives on Lines
\* (a panic of the process apart).
C26_TailReceiverExitsAfterStop ==
  (tDone = "closed" /\ TailReceiverAlive) ~> ((tRcv = "exited" /\ tailDone) \/ tPanicked)

====
